---- MODULE Spec2Model ----
(***************************************************************************)
(* Auto-Timestamp (src/main.ts): the frontmatter editor (addFrontmatter,   *)
(* updateModifiedTime), the date formatter (formatDate), the ignore check  *)
(* (shouldIgnoreFile) and the create/modify handlers with their            *)
(* re-entrancy flag (isUpdating).                                          *)
(*                                                                         *)
(* A string is a sequence of one-character strings, so that the regular    *)
(* expressions and String.prototype.replace of the source act on           *)
(* characters, as they do in the program.                                  *)
(***************************************************************************)
EXTENDS Integers, Sequences, FiniteSets

VARIABLES
  settings,    \* this.settings
  isUpdating,  \* this.isUpdating
  files,       \* the vault: the text of each file, or Absent
  tasks,       \* the handler invocations in progress
  clock,       \* seconds of wall-clock time elapsed
  seen,        \* per file: what the handlers did with it
  edited,      \* per file: the last edit by the user
  mode,        \* which operation of the plugin this behaviour exercises
  content,     \* argument `content` of addFrontmatter / updateModifiedTime
  value,       \* argument `created`/`modified` (the formatted timestamp)
  date,        \* argument `date` of formatDate
  result,      \* value returned by the function called
  result2,     \* value returned by calling updateModifiedTime on result
  pc           \* position of the caller: "call", "returned", "again"

callVars == <<mode, content, value, date, result, result2, pc>>

vaultVars == <<isUpdating, files, tasks, clock, seen, edited>>

vars == <<settings, isUpdating, files, tasks, clock, seen, edited,
          mode, content, value, date, result, result2, pc>>

----------------------------------------------------------------------------
(* Characters and strings *)

LF == "\n"
CR == "\r"
\* the character U+0060 (a TLA+ string cannot hold it)
GRAVE == "grave"

DASHES == <<"-", "-", "-">>

Min(S) == CHOOSE x \in S : \A y \in S : x <= y

StartsWithAt(s, i, p) ==
  /\ i >= 1
  /\ i + Len(p) - 1 <= Len(s)
  /\ SubSeq(s, i, i + Len(p) - 1) = p

From(s, i) == SubSeq(s, i, Len(s))

IsLineTerminator(c) == c \in {LF, CR}

Digits == <<"0", "1", "2", "3", "4", "5", "6", "7", "8", "9">>

IsDigit(c) == \E d \in 1..10 : Digits[d] = c

DigitVal(c) == (CHOOSE d \in 1..10 : Digits[d] = c) - 1

----------------------------------------------------------------------------
(* Settings *)

DEFAULT_SETTINGS ==
  [ dateFormat |-> <<"y","y","y","y","-","M","M","-","d","d","T",
                     "H","H",":","m","m",":","s","s">>,
    createdKey |-> <<"c","r","e","a","t","e","d">>,
    modifiedKey |-> <<"m","o","d","i","f","i","e","d">>,
    ignorePatterns |-> <<>> ]

----------------------------------------------------------------------------
(* String.prototype.replace(regexp, replacement): the replacement text is  *)
(* a template in which $$, $&, $`, $' and $n / $nn are substituted.  Both  *)
(* regular expressions of the source have exactly one capture group.       *)

RECURSIVE GetSubstitution(_, _, _, _, _)
GetSubstitution(matched, before, after, capture1, template) ==
  IF template = <<>> THEN <<>>
  ELSE IF template[1] # "$" \/ Len(template) = 1
  THEN <<template[1]>>
       \o GetSubstitution(matched, before, after, capture1, Tail(template))
  ELSE
    LET c == template[2]
        Go(n) == GetSubstitution(matched, before, after, capture1,
                                 From(template, n + 1))
    IN CASE c = "$" -> <<"$">> \o Go(2)
         [] c = "&" -> matched \o Go(2)
         [] c = GRAVE -> before \o Go(2)
         [] c = "'" -> after \o Go(2)
         [] IsDigit(c) ->
              LET two == Len(template) >= 3 /\ IsDigit(template[3])
                  index2 == IF two
                            THEN 10 * DigitVal(c) + DigitVal(template[3])
                            ELSE 0
                  digitCount == IF two /\ index2 <= 1 THEN 2 ELSE 1
                  index == IF digitCount = 2 THEN index2 ELSE DigitVal(c)
              IN IF index = 1
                 THEN capture1 \o Go(1 + digitCount)
                 ELSE SubSeq(template, 1, 1 + digitCount) \o Go(1 + digitCount)
         [] OTHER -> <<"$">> \o Go(1)

\* str.replace(regexp, replacement) for a match m of a regexp without the
\* g flag: only the first match is replaced
Replace(str, m, replacement) ==
  IF ~m.found THEN str
  ELSE SubSeq(str, 1, m.start - 1)
       \o GetSubstitution(SubSeq(str, m.start, m.end),
                          SubSeq(str, 1, m.start - 1),
                          From(str, m.end + 1),
                          m.capture1, replacement)
       \o From(str, m.end + 1)

NoMatch == [found |-> FALSE, start |-> 0, end |-> 0, capture1 |-> <<>>]

\* content.match(/^---\n([\s\S]*?)\n---/): the text must begin with "---\n";
\* the lazy group ends at the first "\n---" that follows
frontmatterRegex(str) ==
  IF ~StartsWithAt(str, 1, DASHES \o <<LF>>) THEN NoMatch
  ELSE LET closes == {i \in 5..Len(str) : StartsWithAt(str, i, <<LF>> \o DASHES)}
       IN IF closes = {} THEN NoMatch
          ELSE [found |-> TRUE, start |-> 1, end |-> Min(closes) + 3,
                capture1 |-> SubSeq(str, 5, Min(closes) - 1)]

\* positions where ^ of a regexp with the m flag matches and `key:` follows
KeyPositions(str, key) ==
  {i \in 1..Len(str) :
     /\ i = 1 \/ IsLineTerminator(str[i - 1])
     /\ StartsWithAt(str, i, key \o <<":">>)}

\* new RegExp(`^${key}:`, "m").test(str)
KeyRegexTest(str, key) == KeyPositions(str, key) # {}

\* the match of new RegExp(`^(${key}:).*$`, "m") in str: from the first line
\* start where `key:` stands to the end of that line
RECURSIVE LineEnd(_, _)
LineEnd(str, i) ==
  IF i > Len(str) \/ IsLineTerminator(str[i]) THEN i - 1 ELSE LineEnd(str, i + 1)

modifiedRegex(str, key) ==
  IF KeyPositions(str, key) = {} THEN NoMatch
  ELSE LET p == Min(KeyPositions(str, key))
       IN [found |-> TRUE, start |-> p, end |-> LineEnd(str, p),
           capture1 |-> key \o <<":">>]

----------------------------------------------------------------------------
(* formatDate.  A Date is the record of what its getters return:           *)
(* getFullYear, getMonth (0..11), getDate, getHours, getMinutes,           *)
(* getSeconds.                                                             *)

\* Number.prototype.toString() of a natural number
RECURSIVE toString(_)
toString(n) ==
  IF n < 10 THEN <<Digits[n + 1]>>
  ELSE toString(n \div 10) \o <<Digits[(n % 10) + 1]>>

\* str.padStart(targetLength, "0")
RECURSIVE padStart(_, _)
padStart(str, targetLength) ==
  IF Len(str) >= targetLength THEN str
  ELSE padStart(<<"0">> \o str, targetLength)

\* str.replaceAll(pattern, replacement): every occurrence is replaced
RECURSIVE StringReplaceAll(_, _, _)
StringReplaceAll(str, pattern, replacement) ==
  LET at == {i \in 1..Len(str) : StartsWithAt(str, i, pattern)}
  IN IF at = {} THEN str
     ELSE SubSeq(str, 1, Min(at) - 1) \o replacement
          \o StringReplaceAll(From(str, Min(at) + Len(pattern)), pattern,
                              replacement)

\* str.replace(pattern, replacement) for a string pattern: the first
\* occurrence only.  The replacements of formatDate are digits, so the
\* replacement template holds no `$` to substitute.
StringReplace(str, pattern, replacement) ==
  LET at == {i \in 1..Len(str) : StartsWithAt(str, i, pattern)}
  IN IF at = {} THEN str
     ELSE SubSeq(str, 1, Min(at) - 1) \o replacement
          \o From(str, Min(at) + Len(pattern))

formatDate(d) ==
  LET format == settings.dateFormat
      year == toString(d.year)
      month == padStart(toString(d.month + 1), 2)
      day == padStart(toString(d.date), 2)
      hours == padStart(toString(d.hours), 2)
      minutes == padStart(toString(d.minutes), 2)
      seconds == padStart(toString(d.seconds), 2)
      r1 == StringReplace(format, <<"y", "y", "y", "y">>, year)
      r2 == StringReplace(r1, <<"M", "M">>, month)
      r3 == StringReplace(r2, <<"d", "d">>, day)
      r4 == StringReplace(r3, <<"H", "H">>, hours)
      r5 == StringReplace(r4, <<"m", "m">>, minutes)
  IN StringReplace(r5, <<"s", "s">>, seconds)

----------------------------------------------------------------------------
(* The frontmatter editor *)

addFrontmatter(text, created, modified) ==
  LET createdKey == settings.createdKey
      modifiedKey == settings.modifiedKey
      match == frontmatterRegex(text)
  IN IF match.found
     THEN LET fm0 == match.capture1
              fm1 == IF ~KeyRegexTest(fm0, createdKey)
                     THEN createdKey \o <<":", " ">> \o created \o <<LF>> \o fm0
                     ELSE fm0
              fm2 == IF ~KeyRegexTest(fm1, modifiedKey)
                     THEN fm1 \o <<LF>> \o modifiedKey \o <<":", " ">> \o modified
                     ELSE fm1
          IN Replace(text, match, DASHES \o <<LF>> \o fm2 \o <<LF>> \o DASHES)
     ELSE DASHES \o <<LF>> \o createdKey \o <<":", " ">> \o created \o <<LF>>
          \o modifiedKey \o <<":", " ">> \o modified \o <<LF>> \o DASHES \o <<LF>>
          \o text

updateModifiedTime(text, modified) ==
  LET createdKey == settings.createdKey
      modifiedKey == settings.modifiedKey
      match == frontmatterRegex(text)
  IN IF ~match.found THEN text
     ELSE LET fm0 == match.capture1
              mm == modifiedRegex(fm0, modifiedKey)
              fm1 == IF mm.found
                     THEN Replace(fm0, mm, <<"$", "1", " ">> \o modified)
                     ELSE fm0 \o <<LF>> \o modifiedKey \o <<":", " ">> \o modified
              fm2 == IF ~KeyRegexTest(fm1, createdKey)
                     THEN createdKey \o <<":", " ">> \o modified \o <<LF>> \o fm1
                     ELSE fm1
          IN Replace(text, match, DASHES \o <<LF>> \o fm2 \o <<LF>> \o DASHES)

----------------------------------------------------------------------------
(* shouldIgnoreFile: new RegExp(pattern).test(file.path).  The patterns    *)
(* are regular expressions over literal characters, `.`, a postfix `*`,    *)
(* the assertions `^` and `$` and `\` before a punctuation character.      *)

SyntaxError == [ok |-> FALSE, atoms |-> <<>>]

\* new RegExp(pattern): the pattern's atoms, or a SyntaxError ("nothing to
\* repeat", "\ at end of pattern")
RECURSIVE RegExp(_)
RegExp(pattern) ==
  IF pattern = <<>> THEN [ok |-> TRUE, atoms |-> <<>>]
  ELSE
    LET c == pattern[1]
    IN IF c = "*" \/ (c = "\\" /\ Len(pattern) = 1) THEN SyntaxError
       ELSE
         LET n == IF c = "\\" THEN 2 ELSE 1
             kind == CASE c = "\\" -> "char"
                       [] c = "." -> "any"
                       [] c = "^" -> "bol"
                       [] c = "$" -> "eol"
                       [] OTHER -> "char"
             star == /\ Len(pattern) > n
                     /\ pattern[n + 1] = "*"
                     /\ kind \in {"char", "any"}
             rest == RegExp(From(pattern, n + 1 + (IF star THEN 1 ELSE 0)))
         IN IF ~rest.ok THEN SyntaxError
            ELSE [ok |-> TRUE,
                  atoms |-> <<[kind |-> kind, char |-> pattern[n], star |-> star]>>
                            \o rest.atoms]

AtomMatches(atom, c) ==
  \/ atom.kind = "any" /\ ~IsLineTerminator(c)
  \/ atom.kind = "char" /\ atom.char = c

\* the matcher started at position i of str, at atom k: backtracking over
\* the lengths a starred atom may take
RECURSIVE MatchHere(_, _, _, _)
MatchHere(atoms, k, str, i) ==
  IF k > Len(atoms) THEN TRUE
  ELSE
    LET a == atoms[k]
    IN CASE a.kind = "bol" -> i = 1 /\ MatchHere(atoms, k + 1, str, i)
         [] a.kind = "eol" -> i = Len(str) + 1 /\ MatchHere(atoms, k + 1, str, i)
         [] a.star ->
              \E n \in 0..(Len(str) + 1 - i) :
                /\ \A j \in i..(i + n - 1) : AtomMatches(a, str[j])
                /\ MatchHere(atoms, k + 1, str, i + n)
         [] OTHER ->
              /\ i <= Len(str)
              /\ AtomMatches(a, str[i])
              /\ MatchHere(atoms, k + 1, str, i + 1)

\* a test that tries a match at the first position only
RegExpTestAtStart(atoms, str) == MatchHere(atoms, 1, str, 1)

\* regex.test(str) without the g flag: a match starting at any position
RegExpTest(atoms, str) == \E i \in 1..(Len(str) + 1) : MatchHere(atoms, 1, str, i)

\* ignorePatterns.some(...) from pattern k on: "true", "false", or "throw"
\* when a pattern reached before any match does not compile
RECURSIVE SomePatternFrom(_, _, _)
SomePatternFrom(patterns, k, path) ==
  IF k > Len(patterns) THEN "false"
  ELSE LET regex == RegExp(patterns[k])
       IN IF ~regex.ok THEN "throw"
          ELSE IF RegExpTest(regex.atoms, path) THEN "true"
          ELSE SomePatternFrom(patterns, k + 1, path)

shouldIgnoreFile(file) == SomePatternFrom(settings.ignorePatterns, 1, file.path)

----------------------------------------------------------------------------
(* The vault, its events and the two handlers.  An async handler runs in   *)
(* segments, one per await; a segment is one step.                          *)

MaxTasks == 2
MaxClock == 1
MaxEdits == 1

Paths ==
  << <<"t", "/", "a", ".", "m", "d">>,
     <<"n", "/", "b", ".", "m", "d">> >>

FileIds == 1..Len(Paths)

\* TFile: path and extension (the text after the last dot)
TFile(f) ==
  LET path == Paths[f]
      dots == {i \in 1..Len(path) : path[i] = "."}
      last == CHOOSE i \in dots : \A j \in dots : j <= i
  IN [path |-> path,
      extension |-> IF dots = {} THEN <<>> ELSE From(path, last + 1)]

\* the ignorePatterns a user may have configured
PatternLists ==
  { <<>>,
    << <<"t", "/", ".", "*">> >>,
    << <<"x">>, <<"b", "\\", ".", "m", "d", "$">> >>,
    << <<"^", "n">>, <<"*">> >> }

\* what a new file holds when the create event fires
NewFileTexts ==
  { <<>>,
    DASHES \o <<LF, "f", "o", "o", ":", " ", "b", "a", "r", LF>> \o DASHES
      \o <<LF, "b", "o", "d", "y">> }

NoFile == [exists |-> FALSE, text |-> <<>>, edits |-> 0]

Idle == [pc |-> "idle", kind |-> "none", file |-> 0, updated |-> <<>>,
         cause |-> "none"]

Untouched == [read |-> FALSE, written |-> FALSE, ignored |-> FALSE]

NotEdited == [at |-> -1, text |-> <<>>]

\* the Date c seconds after 2024-12-29 14:30:52
DateAt(c) ==
  [year |-> 2024, month |-> 11, date |-> 29, hours |-> 14,
   minutes |-> 30 + ((52 + c) \div 60), seconds |-> (52 + c) % 60]

\* new Date()
NewDate == DateAt(clock)

FreeSlots(ts) == {t \in 1..MaxTasks : ts[t].pc = "idle"}

\* the event callbacks (lines 33-37, 42-46) up to the handler's first
\* await: "skip" (not a Markdown file), "busy" (isUpdating), "ignore",
\* "throw" (a pattern does not compile) or "run"
Dispatch(f, flag) ==
  IF TFile(f).extension # <<"m", "d">> THEN "skip"
  ELSE IF flag THEN "busy"
  ELSE LET ignore == shouldIgnoreFile(TFile(f))
       IN CASE ignore = "true" -> "ignore"
            [] ignore = "throw" -> "throw"
            [] OTHER -> "run"

\* the tasks after event `kind` on file f was dispatched with outcome d:
\* handleFileCreate waits (line 106), handleFileModify reads (line 126)
Deliver(kind, f, cause, ts, d) ==
  IF d # "run" THEN ts
  ELSE [ts EXCEPT ![Min(FreeSlots(ts))] =
          [pc |-> IF kind = "create" THEN "delay" ELSE "read",
           kind |-> kind, file |-> f, updated |-> <<>>, cause |-> cause]]

\* the model holds at most MaxTasks handlers at a time
Admits(d, ts) == d = "run" => FreeSlots(ts) # {}

Noted(f, d) ==
  IF d = "ignore" THEN [seen EXCEPT ![f].ignored = TRUE] ELSE seen

InitVault ==
  /\ isUpdating = FALSE
  /\ files = [f \in FileIds |-> NoFile]
  /\ tasks = [t \in 1..MaxTasks |-> Idle]
  /\ clock = 0
  /\ seen = [f \in FileIds |-> Untouched]
  /\ edited = [f \in FileIds |-> NotEdited]

NoVault == InitVault

NoCall ==
  /\ mode = "vault"
  /\ content = <<>>
  /\ value = <<>>
  /\ date = <<>>
  /\ result = <<>>
  /\ result2 = <<>>
  /\ pc = "none"

Init ==
  /\ settings \in { [DEFAULT_SETTINGS EXCEPT !.ignorePatterns = ps] :
                      ps \in PatternLists }
  /\ InitVault
  /\ NoCall

\* the user creates file f: the vault fires "create" (lines 33-37, 102-106)
UserCreate(f, text) ==
  /\ ~files[f].exists
  /\ LET d == Dispatch(f, isUpdating)
     IN /\ Admits(d, tasks)
        /\ tasks' = Deliver("create", f, "user", tasks, d)
        /\ seen' = Noted(f, d)
  /\ files' = [files EXCEPT ![f] = [exists |-> TRUE, text |-> text, edits |-> 0]]
  /\ UNCHANGED <<settings, isUpdating, clock, edited>>
  /\ UNCHANGED callVars

\* the user edits and saves file f (types one character at its end): the
\* vault fires "modify" (lines 42-46, 123-126)
UserEdit(f) ==
  /\ files[f].exists
  /\ files[f].edits < MaxEdits
  /\ LET d == Dispatch(f, isUpdating)
     IN /\ Admits(d, tasks)
        /\ tasks' = Deliver("modify", f, "user", tasks, d)
        /\ seen' = Noted(f, d)
  /\ files' = [files EXCEPT ![f].text = @ \o <<"x">>, ![f].edits = @ + 1]
  /\ edited' = [edited EXCEPT ![f] = [at |-> clock, text |-> files'[f].text]]
  /\ UNCHANGED <<settings, isUpdating, clock>>
  /\ UNCHANGED callVars

\* a second of wall-clock time passes
Tick ==
  /\ clock < MaxClock
  /\ clock' = clock + 1
  /\ UNCHANGED <<settings, isUpdating, files, tasks, seen, edited>>
  /\ UNCHANGED callVars

\* handleFileCreate line 106: the delay of 100 ms is over; vault.read is
\* called (line 108)
DelayElapsed(t) ==
  /\ tasks[t].pc = "delay"
  /\ tasks' = [tasks EXCEPT ![t].pc = "read"]
  /\ UNCHANGED <<settings, isUpdating, files, clock, seen, edited>>
  /\ UNCHANGED callVars

\* lines 108-115 and 126-133: vault.read resolves with the file's text;
\* the handler formats the time, edits the text and, when the text
\* changed, sets isUpdating and calls vault.modify
ReadResolved(t) ==
  /\ tasks[t].pc = "read"
  /\ LET f == tasks[t].file
         text == files[f].text
         now == formatDate(NewDate)
         updatedContent == IF tasks[t].kind = "create"
                           THEN addFrontmatter(text, now, now)
                           ELSE updateModifiedTime(text, now)
     IN /\ seen' = [seen EXCEPT ![f].read = TRUE]
        /\ IF updatedContent # text
           THEN /\ isUpdating' = TRUE
                /\ tasks' = [tasks EXCEPT ![t].pc = "write",
                                          ![t].updated = updatedContent]
           ELSE /\ isUpdating' = isUpdating
                /\ tasks' = [tasks EXCEPT ![t] = Idle]
  /\ UNCHANGED <<settings, files, clock, edited>>
  /\ UNCHANGED callVars

\* lines 115, 133: vault.modify writes the file, and the vault fires
\* "modify" for that write before the call resolves (lines 42-46, 123-126)
ModifyPerformed(t) ==
  /\ tasks[t].pc = "write"
  /\ LET f == tasks[t].file
         d == Dispatch(f, isUpdating)
         written == [tasks EXCEPT ![t].pc = "written"]
     IN /\ Admits(d, written)
        /\ files' = [files EXCEPT ![f].text = tasks[t].updated]
        /\ tasks' = Deliver("modify", f, "self", written, d)
        /\ seen' = [Noted(f, d) EXCEPT ![f].written = TRUE]
  /\ UNCHANGED <<settings, isUpdating, clock, edited>>
  /\ UNCHANGED callVars

\* lines 116, 134: vault.modify resolved; this.isUpdating = false
ModifyResolved(t) ==
  /\ tasks[t].pc = "written"
  /\ isUpdating' = FALSE
  /\ tasks' = [tasks EXCEPT ![t] = Idle]
  /\ UNCHANGED <<settings, files, clock, seen, edited>>
  /\ UNCHANGED callVars

Next ==
  \/ \E f \in FileIds, text \in NewFileTexts : UserCreate(f, text)
  \/ \E f \in FileIds : UserEdit(f)
  \/ Tick
  \/ \E t \in 1..MaxTasks : DelayElapsed(t)
  \/ \E t \in 1..MaxTasks : ReadResolved(t)
  \/ \E t \in 1..MaxTasks : ModifyPerformed(t)
  \/ \E t \in 1..MaxTasks : ModifyResolved(t)

Spec == Init /\ [][Next]_vars

\* lines 108, 126: vault.read rejects; the handler ends with the error
ReadRejected(t) ==
  /\ tasks[t].pc = "read"
  /\ tasks' = [tasks EXCEPT ![t] = Idle]
  /\ UNCHANGED <<settings, isUpdating, files, clock, seen, edited>>
  /\ UNCHANGED callVars

\* lines 115, 133: vault.modify rejects; the handler ends with the error
\* and never reaches line 116 / 134
ModifyRejected(t) ==
  /\ tasks[t].pc = "write"
  /\ tasks' = [tasks EXCEPT ![t] = Idle]
  /\ UNCHANGED <<settings, isUpdating, files, clock, seen, edited>>
  /\ UNCHANGED callVars

NextFail ==
  \/ Next
  \/ \E t \in 1..MaxTasks : ReadRejected(t)
  \/ \E t \in 1..MaxTasks : ModifyRejected(t)

SpecFail == Init /\ [][NextFail]_vars

----------------------------------------------------------------------------
(* The editor called on a document: the callers' lines 111 and 129 *)

MaxLines == 4

L_delim == DASHES
L_created == DEFAULT_SETTINGS.createdKey \o <<":", " ", "1">>
L_modified == DEFAULT_SETTINGS.modifiedKey \o <<":", " ", "1">>
L_foo == <<"f", "o", "o", ":", " ", "b", "a", "r">>
L_body == <<"b", "o", "d", "y">>
L_empty == <<>>
L_price == <<"p", ":", " ", "$", "1", "0">>
L_cash == <<"$", "$">>
L_rule == <<"-", "-", "-", "-">>

Lines == {L_delim, L_created, L_modified, L_foo, L_body, L_empty, L_price,
          L_cash, L_rule}

RECURSIVE Join(_)
Join(ls) ==
  IF ls = <<>> THEN <<>>
  ELSE IF Len(ls) = 1 THEN ls[1]
  ELSE ls[1] \o <<LF>> \o Join(Tail(ls))

\* the documents of README.md lines 25-41 (with the keys already present)
Examples ==
  { Join(<<L_delim, L_created, L_modified, L_delim, L_empty, L_body>>),
    Join(<<L_delim, L_created, L_foo, L_modified, L_delim, L_body>>),
    Join(<<L_delim, L_modified, L_foo, L_created, L_modified, L_delim, L_body>>) }

Documents ==
  { Join(ls) : ls \in UNION { [1..n -> Lines] : n \in 0..MaxLines } } \cup Examples

Values == { <<"X">>, <<"7">> }

InitEditor ==
  /\ settings = DEFAULT_SETTINGS
  /\ mode \in {"addFrontmatter", "updateModifiedTime"}
  /\ content \in Documents
  /\ value \in Values
  /\ date = <<>>
  /\ result = <<>>
  /\ result2 = <<>>
  /\ pc = "call"
  /\ NoVault

\* handleFileCreate line 111: addFrontmatter(content, now, now)
CallAddFrontmatter ==
  /\ mode = "addFrontmatter"
  /\ pc = "call"
  /\ result' = addFrontmatter(content, value, value)
  /\ pc' = "returned"
  /\ UNCHANGED <<settings, mode, content, value, date, result2>>
  /\ UNCHANGED vaultVars

\* handleFileModify line 129: updateModifiedTime(content, now)
CallUpdateModifiedTime ==
  /\ mode = "updateModifiedTime"
  /\ pc = "call"
  /\ result' = updateModifiedTime(content, value)
  /\ pc' = "returned"
  /\ UNCHANGED <<settings, mode, content, value, date, result2>>
  /\ UNCHANGED vaultVars

\* a second modify handled with the same formatted timestamp: line 129 on
\* the text the first call produced
CallUpdateModifiedTimeAgain ==
  /\ mode = "updateModifiedTime"
  /\ pc = "returned"
  /\ result2' = updateModifiedTime(result, value)
  /\ pc' = "again"
  /\ UNCHANGED <<settings, mode, content, value, date, result>>
  /\ UNCHANGED vaultVars

NextEditor ==
  \/ CallAddFrontmatter
  \/ CallUpdateModifiedTime
  \/ CallUpdateModifiedTimeAgain

SpecEditor == InitEditor /\ [][NextEditor]_vars

----------------------------------------------------------------------------
(* The editor's contract, stated on lines.  A leading block is read as the  *)
(* source reads it, which is the reading most favourable to the code: the  *)
(* first line is `---` and the block is closed by the first later line,     *)
(* not the second, that begins with `---`.                                  *)

RECURSIVE SplitLines(_)
SplitLines(str) ==
  LET breaks == {i \in 1..Len(str) : str[i] = LF}
  IN IF breaks = {} THEN <<str>>
     ELSE <<SubSeq(str, 1, Min(breaks) - 1)>>
          \o SplitLines(From(str, Min(breaks) + 1))

LineHasKey(line, key) == StartsWithAt(line, 1, key \o <<":">>)

SomeLineHasKey(ls, key) == \E i \in 1..Len(ls) : LineHasKey(ls[i], key)

KeyLine(key, v) == key \o <<":", " ">> \o v

\* the closing lines of a text's leading block (empty: no leading block)
ClosingLines(ls) ==
  IF Len(ls) >= 1 /\ ls[1] = DASHES
  THEN {j \in 3..Len(ls) : StartsWithAt(ls[j], 1, DASHES)}
  ELSE {}

HasBlock(str) == ClosingLines(SplitLines(str)) # {}

BlockLines(str) ==
  LET ls == SplitLines(str)
  IN SubSeq(ls, 2, Min(ClosingLines(ls)) - 1)

\* the text from the closing delimiter's line on
AfterBlock(str) ==
  LET ls == SplitLines(str)
  IN SubSeq(ls, Min(ClosingLines(ls)), Len(ls))

RefAddFrontmatter(str, v) ==
  LET ck == DEFAULT_SETTINGS.createdKey
      mk == DEFAULT_SETTINGS.modifiedKey
  IN IF ~HasBlock(str)
     THEN Join(<<DASHES, KeyLine(ck, v), KeyLine(mk, v), DASHES>>) \o <<LF>> \o str
     ELSE LET fm == BlockLines(str)
          IN Join(<<DASHES>>
                  \o (IF SomeLineHasKey(fm, ck) THEN <<>> ELSE <<KeyLine(ck, v)>>)
                  \o fm
                  \o (IF SomeLineHasKey(fm, mk) THEN <<>> ELSE <<KeyLine(mk, v)>>)
                  \o AfterBlock(str))

RefUpdateModifiedTime(str, v) ==
  LET ck == DEFAULT_SETTINGS.createdKey
      mk == DEFAULT_SETTINGS.modifiedKey
  IN IF ~HasBlock(str) THEN str
     ELSE LET fm == BlockLines(str)
              first == Min({i \in 1..Len(fm) : LineHasKey(fm[i], mk)})
              fm1 == IF SomeLineHasKey(fm, mk)
                     THEN [fm EXCEPT ![first] = KeyLine(mk, v)]
                     ELSE fm \o <<KeyLine(mk, v)>>
          IN Join(<<DASHES>>
                  \o (IF SomeLineHasKey(fm, ck) THEN <<>> ELSE <<KeyLine(ck, v)>>)
                  \o fm1
                  \o AfterBlock(str))

\* C1: addFrontmatter(text, V, V) equals the reference: without a leading
\* block the four lines ---, createdKey: V, modifiedKey: V, --- are put
\* before the unchanged text; with one, every frontmatter line is kept in
\* order, a createdKey line is added first and a modifiedKey line last only
\* when no line starts with that key, and the rest is unchanged.
C1_AddFrontmatterIsReference ==
  (mode = "addFrontmatter" /\ pc = "returned")
    => result = RefAddFrontmatter(content, value)

\* C2: updateModifiedTime(text, V) changes nothing but the two timestamp
\* keys: no block, no change; otherwise the first modifiedKey line gets the
\* value V (or a modifiedKey line is appended to the block), a createdKey
\* line is put first only when none exists, and every other frontmatter
\* line and the body stay as they were.
C2_UpdateModifiedTimeFrame ==
  (mode = "updateModifiedTime" /\ pc = "returned")
    => result = RefUpdateModifiedTime(content, value)

\* C3: updateModifiedTime is idempotent for a fixed value: applying it to
\* its own result with the same V returns that result.
C3_UpdateModifiedTimeIdempotent ==
  (mode = "updateModifiedTime" /\ pc = "again") => result2 = result

HasDollar(str) == \E i \in 1..Len(str) : str[i] = "$"

\* On documents that hold no `$` the editor meets both references: the
\* replacement template of lines 160 and 200 is what breaks them.
EditorIsReferenceWithoutDollar ==
  HasDollar(content) \/ (C1_AddFrontmatterIsReference /\ C2_UpdateModifiedTimeFrame)

----------------------------------------------------------------------------
(* formatDate called on a date under a configured dateFormat: lines 109,   *)
(* 127                                                                     *)

MaxPieces == 3

Pieces ==
  { <<"y", "y", "y", "y">>, <<"M", "M">>, <<"d", "d">>, <<"H", "H">>,
    <<"m", "m">>, <<"s", "s">>, <<"y">>, <<"M">>, <<"s">>, <<"-">> }

RECURSIVE Concat(_)
Concat(ps) == IF ps = <<>> THEN <<>> ELSE ps[1] \o Concat(Tail(ps))

\* README.md lines 66-68 and DEFAULT_SETTINGS
FormatExamples ==
  { DEFAULT_SETTINGS.dateFormat,
    <<"y","y","y","y","M","M","d","d","H","H","m","m","s","s">>,
    <<"y","y","y","y","-","M","M","-","d","d"," ","H","H",":","m","m",":","s","s">>,
    <<"y","y","y","y","/","M","M","/","d","d">> }

Formats ==
  { Concat(ps) : ps \in UNION { [1..n -> Pieces] : n \in 0..MaxPieces } }
    \cup FormatExamples

Date_2024_12_29 ==
  [year |-> 2024, month |-> 11, date |-> 29, hours |-> 14, minutes |-> 30,
   seconds |-> 52]

Dates ==
  { Date_2024_12_29,
    [year |-> 2025, month |-> 0, date |-> 5, hours |-> 9, minutes |-> 3,
     seconds |-> 0],
    [year |-> 987, month |-> 8, date |-> 10, hours |-> 0, minutes |-> 59,
     seconds |-> 7] }

InitFormat ==
  /\ settings \in { [DEFAULT_SETTINGS EXCEPT !.dateFormat = f] : f \in Formats }
  /\ mode = "formatDate"
  /\ content = <<>>
  /\ value = <<>>
  /\ date \in Dates
  /\ result = <<>>
  /\ result2 = <<>>
  /\ pc = "call"
  /\ NoVault

\* lines 109, 127: this.formatDate(new Date())
CallFormatDate ==
  /\ mode = "formatDate"
  /\ pc = "call"
  /\ result' = formatDate(date)
  /\ pc' = "returned"
  /\ UNCHANGED <<settings, mode, content, value, date, result2>>
  /\ UNCHANGED vaultVars

SpecFormat == InitFormat /\ [][CallFormatDate]_vars

(* The contract of formatDate, stated in one pass over the template: each  *)
(* token is located in the template as written, and the component          *)
(* stands at the place of its first occurrence.                            *)

Tokens == << <<"y", "y", "y", "y">>, <<"M", "M">>, <<"d", "d">>,
             <<"H", "H">>, <<"m", "m">>, <<"s", "s">> >>

TwoDigits(n) == <<Digits[(n \div 10) + 1], Digits[(n % 10) + 1]>>

RECURSIVE Decimal(_)
Decimal(n) == IF n = 0 THEN <<>> ELSE Decimal(n \div 10) \o <<Digits[(n % 10) + 1]>>

\* component k of a date, as text: the year as it is, the others on 2 digits
Component(d, k) ==
  CASE k = 1 -> IF d.year = 0 THEN <<"0">> ELSE Decimal(d.year)
    [] k = 2 -> TwoDigits(d.month + 1)
    [] k = 3 -> TwoDigits(d.date)
    [] k = 4 -> TwoDigits(d.hours)
    [] k = 5 -> TwoDigits(d.minutes)
    [] k = 6 -> TwoDigits(d.seconds)

FirstOccurrence(str, k) ==
  LET at == {i \in 1..Len(str) : StartsWithAt(str, i, Tokens[k])}
  IN IF at = {} THEN 0 ELSE Min(at)

RECURSIVE RefFormatFrom(_, _, _)
RefFormatFrom(template, d, i) ==
  IF i > Len(template) THEN <<>>
  ELSE LET here == {k \in 1..6 : FirstOccurrence(template, k) = i}
       IN IF here = {}
          THEN <<template[i]>> \o RefFormatFrom(template, d, i + 1)
          ELSE LET k == Min(here)
               IN Component(d, k)
                  \o RefFormatFrom(template, d, i + Len(Tokens[k]))

RefFormatDate(template, d) == RefFormatFrom(template, d, 1)

Text_2024_12_29T14_30_52 ==
  <<"2","0","2","4","-","1","2","-","2","9","T","1","4",":","3","0",":","5","2">>

\* C4: formatDate replaces the first occurrence of each token yyyy, MM, dd,
\* HH, mm, ss by the date's component (the year as it is, the others on two
\* digits) and keeps every other character of the template; the date
\* 2024-12-29 14:30:52 gives 2024-12-29T14:30:52, 20241229143052 and
\* 2024/12/29 under the three formats of the documentation.
C4_FormatDateIsReference ==
  (mode = "formatDate" /\ pc = "returned") =>
    /\ result = RefFormatDate(settings.dateFormat, date)
    /\ (date = Date_2024_12_29 /\ settings.dateFormat = DEFAULT_SETTINGS.dateFormat)
         => result = Text_2024_12_29T14_30_52
    /\ (date = Date_2024_12_29
        /\ settings.dateFormat
             = <<"y","y","y","y","M","M","d","d","H","H","m","m","s","s">>)
         => result = <<"2","0","2","4","1","2","2","9","1","4","3","0","5","2">>
    /\ (date = Date_2024_12_29
        /\ settings.dateFormat = <<"y","y","y","y","/","M","M","/","d","d">>)
         => result = <<"2","0","2","4","/","1","2","/","2","9">>

\* C4's case: a format with a repeated token and a one-digit component
C4_Witness ==
  /\ mode = "formatDate" /\ pc = "returned"
  /\ settings.dateFormat = <<"M", "M", "d", "d", "M", "M">>
  /\ date.month = 0
  /\ result = <<"0", "1", "0", "5", "M", "M">>

----------------------------------------------------------------------------
(* The handlers' contract *)

\* atoms (without assertions) matching the whole of str
RECURSIVE Denotes(_, _)
Denotes(atoms, str) ==
  IF atoms = <<>> THEN str = <<>>
  ELSE IF atoms[1].star
  THEN \E n \in 0..Len(str) :
         /\ \A j \in 1..n : AtomMatches(atoms[1], str[j])
         /\ Denotes(Tail(atoms), From(str, n + 1))
  ELSE /\ str # <<>>
       /\ AtomMatches(atoms[1], str[1])
       /\ Denotes(Tail(atoms), Tail(str))

\* the pattern matches some part of the path: a part at the path's start
\* when it begins with ^, one at its end when it ends with $
MatchesAnywhere(pattern, path) ==
  LET regex == RegExp(pattern)
      atoms == regex.atoms
      bol == atoms # <<>> /\ atoms[1].kind = "bol"
      eol == atoms # <<>> /\ atoms[Len(atoms)].kind = "eol"
      inner == SubSeq(atoms, IF bol THEN 2 ELSE 1,
                      IF eol THEN Len(atoms) - 1 ELSE Len(atoms))
  IN /\ regex.ok
     /\ \E i \in 1..(Len(path) + 1), j \in 0..Len(path) :
          /\ j >= i - 1
          /\ bol => i = 1
          /\ eol => j = Len(path)
          /\ Denotes(inner, SubSeq(path, i, j))

Matched(f) ==
  \E k \in 1..Len(settings.ignorePatterns) :
    MatchesAnywhere(settings.ignorePatterns[k], Paths[f])

\* C5: a file whose path some configured ignore pattern matches anywhere is
\* never read or written by a handler, and a notification is discarded by
\* the ignore check only for such a file.
C5_IgnoredFileUntouched ==
  \A f \in FileIds :
    /\ Matched(f) =>
         /\ ~seen[f].read
         /\ ~seen[f].written
         /\ \A t \in 1..MaxTasks : tasks[t].file # f
    /\ seen[f].ignored => Matched(f)

\* C5's case: a notification of a matched file was discarded while another
\* file, matched by no pattern, was read and written by a handler
C5_Witness ==
  \E f \in FileIds, g \in FileIds :
    /\ Matched(f) /\ seen[f].ignored /\ files[f].edits > 0
    /\ ~Matched(g) /\ seen[g].read /\ seen[g].written

\* C6: the modify notification caused by a handler's own write is discarded
\* at the guard check: it never starts a handler that reads or writes.
C6_OwnWriteSuppressed ==
  \A t \in 1..MaxTasks : tasks[t].cause # "self"

Quiescent == \A t \in 1..MaxTasks : tasks[t].pc = "idle"

\* a Markdown file that no ignore pattern excludes
Managed(f) == Dispatch(f, FALSE) = "run"

HasKey(str, key) == HasBlock(str) /\ SomeLineHasKey(BlockLines(str), key)

\* the value of the block's first line of that key
KeyValue(str, key) ==
  LET fm == BlockLines(str)
      first == Min({i \in 1..Len(fm) : LineHasKey(fm[i], key)})
  IN From(fm[first], Len(key) + 3)

\* C7: once the handlers are done, every created Markdown file that is not
\* ignored holds a frontmatter block with a createdKey and a modifiedKey
\* line.
C7_CreatedFileIsStamped ==
  \A f \in FileIds :
    (Quiescent /\ files[f].exists /\ Managed(f)) =>
      /\ HasKey(files[f].text, DEFAULT_SETTINGS.createdKey)
      /\ HasKey(files[f].text, DEFAULT_SETTINGS.modifiedKey)

\* the timestamps formatted c seconds in or later
StampsFrom(c) == { formatDate(DateAt(k)) : k \in c..MaxClock }

\* C8: once the handlers are done, a not-ignored Markdown file with a
\* frontmatter block that the user edited holds a modifiedKey line whose
\* timestamp was formatted at or after the edit, and the createdKey value
\* it had at the edit.
C8_EditedFileIsRestamped ==
  \A f \in FileIds :
    (Quiescent /\ Managed(f) /\ edited[f].at >= 0 /\ HasBlock(edited[f].text)) =>
      /\ HasKey(files[f].text, DEFAULT_SETTINGS.modifiedKey)
      /\ KeyValue(files[f].text, DEFAULT_SETTINGS.modifiedKey)
           \in StampsFrom(edited[f].at)
      /\ HasKey(edited[f].text, DEFAULT_SETTINGS.createdKey) =>
           /\ HasKey(files[f].text, DEFAULT_SETTINGS.createdKey)
           /\ KeyValue(files[f].text, DEFAULT_SETTINGS.createdKey)
                = KeyValue(edited[f].text, DEFAULT_SETTINGS.createdKey)

\* C9: isUpdating is true only while a write is in flight: when no handler
\* is between setting the flag and the completion of its vault.modify call,
\* the flag is false.
C9_FlagOnlyWhileWriting ==
  (\A t \in 1..MaxTasks : tasks[t].pc \notin {"write", "written"}) => ~isUpdating

\* the text that follows the block, or the whole text without a block
Body(str) ==
  IF ~HasBlock(str) THEN str
  ELSE LET rest == From(Join(AfterBlock(str)), 4)
       IN IF rest # <<>> /\ rest[1] = LF THEN Tail(rest) ELSE rest

RECURSIVE WithoutKeys(_)
WithoutKeys(ls) ==
  IF ls = <<>> THEN <<>>
  ELSE IF \/ LineHasKey(ls[1], DEFAULT_SETTINGS.createdKey)
          \/ LineHasKey(ls[1], DEFAULT_SETTINGS.modifiedKey)
  THEN WithoutKeys(Tail(ls))
  ELSE <<ls[1]>> \o WithoutKeys(Tail(ls))

\* the body and the frontmatter lines of other keys
NonTarget(str) ==
  [lines |-> IF HasBlock(str) THEN WithoutKeys(BlockLines(str)) ELSE <<>>,
   body |-> Body(str)]

\* C10: the body and the non-target frontmatter lines a handler writes are
\* those the file holds immediately before the write.
C10_WriteKeepsStoredText ==
  [][\A t \in 1..MaxTasks :
       (tasks[t].pc = "write" /\ tasks'[t].pc = "written") =>
         NonTarget(files'[tasks[t].file].text)
           = NonTarget(files[tasks[t].file].text)]_vars

====
